---------------------------- MODULE Spec2Model ----------------------------
(***************************************************************************)
(* Model of server/src/scripts/top-workplaces.ts: a script that pages      *)
(* through two HTTP collections (workplaces, shifts), counts the completed *)
(* shifts of every active workplace and prints the three workplaces with   *)
(* the most completed shifts.                                              *)
(*                                                                         *)
(* One action is one callback of the Node event loop together with the     *)
(* promise reactions (microtasks) it triggers: JavaScript runs a callback  *)
(* and its microtasks to completion before the next I/O event is handled.  *)
(***************************************************************************)
EXTENDS Integers, Sequences, FiniteSets, TLC

VARIABLES
    proc,        \* the process: "init" (main not yet called), "running", "exited"
    exitStatus,  \* <<>> while the process lives, <<code>> once it has exited
    stdout,      \* the documents written to standard output, in order
    pc,          \* per pagination run: "idle", "awaiting", "returned", "threw"
    all,         \* per run: the accumulator (allWorkplaces / allShifts)
    nextUrl,     \* per run: the loop variable nextUrl
    req,         \* per run: the request of the current fetchJson call, with st what
                 \* has become of it ("none", "sent", "receiving", "ended", "failed",
                 \* "aborted", "destroyed") and outcome how the promise has settled
    calls,       \* per run: the number of fetchJson calls made
    requested,   \* per run: the URLs of the requests put on the wire, in order
    served,      \* per run: the pages fetchJson resolved with, in order
    workplaces,  \* getTopWorkplaces: the workplaces handed to the aggregation
    shifts,      \* getTopWorkplaces: the shifts handed to the aggregation
    now,         \* the clock reading (epoch value) taken by isShiftCompleted
    results,     \* getTopWorkplaces: the array it returns
    computed,    \* whether results (or verdict) has been computed
    verdict      \* the value returned by one isShiftCompleted call

vars == <<proc, exitStatus, stdout, pc, all, nextUrl, req, calls, requested,
          served, workplaces, shifts, now, results, computed, verdict>>

-----------------------------------------------------------------------------
(* Bounds of the model. *)

\* The longest chain of pages the server serves for one collection.
MaxPages == 3
\* The longest workplace list handed to the aggregation on its own.
MaxWorkplaces == 4
\* The longest shift list handed to the aggregation on its own.
MaxShifts == 5

-----------------------------------------------------------------------------
(* Values. *)

\* JavaScript values of the fields that may be null: null, a number, a string.
Null == [type |-> "null"]

Num(n) == [type |-> "number", value |-> n]

Str(s) == [type |-> "string", value |-> s]

Runs == {"workplaces", "shifts"}

Other(r) == IF r = "workplaces" THEN "shifts" ELSE "workplaces"

\* The first URL of a pagination run.
StartUrl(r) == "http://localhost:3000/" \o r

\* The k-th cursor link the server hands out for a collection (opaque to the client).
CursorUrl(r, k) == StartUrl(r) \o "?cursor=" \o ToString(k)

\* The timestamps the API uses for endAt, and a string that is no date.
TimeStrings == <<"2000-01-01T00:00:00Z", "2000-01-01T00:00:01Z", "2000-01-01T00:00:02Z">>

NotADate == "not-a-date"

\* new Date(string): the epoch value of a timestamp, an invalid Date otherwise.
NewDate(s) ==
    IF \E i \in 1..Len(TimeStrings) : TimeStrings[i] = s
    THEN [valid |-> TRUE, ms |-> (CHOOSE i \in 1..Len(TimeStrings) : TimeStrings[i] = s) - 1]
    ELSE [valid |-> FALSE, ms |-> 0]

\* The readings new Date() can give: the instants of the timestamps above.
ClockReadings == {[valid |-> TRUE, ms |-> t] : t \in 0..(Len(TimeStrings) - 1)}

\* a < b on two Dates: the comparison of their epoch values, false when one is NaN.
DateLess(a, b) == a.valid /\ b.valid /\ a.ms < b.ms

Workplace(i, n, s) == [id |-> i, name |-> n, status |-> s]

Shift(i, wp, worker, cancelled, end) ==
    [id |-> i, workplaceId |-> wp, workerId |-> worker, cancelledAt |-> cancelled, endAt |-> end]

-----------------------------------------------------------------------------
(* The API server: what it can answer.  The client treats all of it as     *)
(* opaque input.                                                           *)

\* The k-th page of the workplaces collection.
WorkplacePage(k) ==
    CASE k = 1 -> <<Workplace(1, "A", 0), Workplace(2, "B", 0)>>
      [] k = 2 -> <<Workplace(3, "C", 1)>>
      [] OTHER -> <<Workplace(k + 1, "D", 0)>>

\* The k-th page of the shifts collection.
ShiftPage(k) ==
    CASE k = 1 -> <<Shift(1, 1, Num(10), Null, TimeStrings[1]),
                    Shift(2, 2, Num(0), Null, TimeStrings[1])>>
      [] k = 2 -> <<Shift(3, 1, Num(11), Null, TimeStrings[2]),
                    Shift(4, 3, Num(12), Null, TimeStrings[1])>>
      [] OTHER -> <<Shift(2 * k - 1, 1, Null, Null, TimeStrings[1]),
                    Shift(2 * k, 2, Num(13), Str(TimeStrings[1]), TimeStrings[1])>>

\* The data arrays the server may put on its k-th page: the page of the
\* collection, or, on the second page, nothing.
PageData(r, k) ==
    {IF r = "workplaces" THEN WorkplacePage(k) ELSE ShiftPage(k)}
        \cup (IF k = 2 THEN {<<>>} ELSE {})

\* The next links the server may put on its k-th page: a cursor while it has
\* more pages, null or the empty string on a last page.
NextLinks(r, k) == {Null, Str("")} \cup (IF k < MaxPages THEN {Str(CursorUrl(r, k))} ELSE {})

Pages(r, k) == {[data |-> d, links |-> [next |-> n]] : d \in PageData(r, k), n \in NextLinks(r, k)}

\* The body text of a page, as the chunks it arrives in.
Serialize(page) == <<[part |-> "data", data |-> page.data], [part |-> "links", links |-> page.links]>>

\* A complete body that is no JSON text.
Garbage == <<[part |-> "html"]>>

\* The status codes the server answers with.
StatusCodes == {199, 200, 299, 300, 500}

\* The bodies of the server's k-th answer: a page or a document that is no
\* JSON (an answer that is no success carries an error document, or the first
\* of the pages all the same).
Bodies(r, k, code) ==
    IF code \in {200, 299}
    THEN {Serialize(p) : p \in Pages(r, k)} \cup {Garbage}
    ELSE {Serialize(CHOOSE p \in Pages(r, k) : p.data # <<>> /\ p.links.next = Null), Garbage}

\* The errors the socket of a request can raise: the connection is refused
\* (before anything is exchanged) or reset.
TransportErrors(q) == IF q.st = "sent" THEN {"ECONNREFUSED", "ECONNRESET"} ELSE {"ECONNRESET"}

-----------------------------------------------------------------------------
(* fetchJson.                                                              *)

Pending == [kind |-> "pending"]

Resolved(v) == [kind |-> "resolved", value |-> v]

Rejected(msg) == [kind |-> "rejected", error |-> msg]

NoRequest ==
    [st |-> "none", url |-> "", statusCode |-> 0, wire |-> <<>>, data |-> <<>>,
     outcome |-> Pending]

\* http.request(options, callback) followed by req.end(): one GET on the wire.
NewRequest(url) ==
    [st |-> "sent", url |-> url, statusCode |-> 0, wire |-> <<>>, data |-> <<>>,
     outcome |-> Pending]

\* Whether JSON.parse accepts a text: the text is the whole serialization of a page.
IsJson(text) == Len(text) = 2 /\ text[1].part = "data" /\ text[2].part = "links"

\* JSON.parse of a text it accepts.
JsonParse(text) == [data |-> text[1].data, links |-> text[2].links]

\* The status check of the 'end' handler.
IsSuccessStatus(code) == code # 0 /\ code >= 200 /\ code < 300

\* The 'end' handler of the response: how the promise settles.
OnEnd(code, text) ==
    IF IsSuccessStatus(code)
    THEN IF IsJson(text)
         THEN Resolved(JsonParse(text))
         ELSE Rejected("Failed to parse JSON")
    ELSE Rejected("HTTP error! status: " \o ToString(code))

\* The 'error' handler of the request: reject(error).
OnError(error) == Rejected(error)

-----------------------------------------------------------------------------
(* The paginators, getTopWorkplaces up to its await, and main.             *)

\* while (nextUrl): a non-empty string.
Truthy(v) == v.type = "string" /\ v.value # ""

\* Mutant of Accumulate: the page is put in front of what was fetched before.
AccumulateInFront(acc, data) == data \o acc

\* allWorkplaces.push(...response.data) / allShifts.push(...response.data)
Accumulate(acc, data) == acc \o data

\* nextUrl = response.links.next
NextLocator(response) == response.links.next

\* Mutant of AllReturned: fulfilled as soon as one run has returned (Promise.race).
AnyReturned(p) == \E r \in Runs : p[r] = "returned"

\* Promise.all: fulfilled once each of the two runs has returned.
AllReturned(p) == \A r \in Runs : p[r] = "returned"

\* The exit code of a process whose event loop has run empty.
ExitCodeOnDrain == 0

\* Mutant of ExitCodeOnError: process.exit() without a code.
ExitCodeDefault == ExitCodeOnDrain

\* process.exit(1) in the catch block of main.
ExitCodeOnError == 1

-----------------------------------------------------------------------------
(* isShiftCompleted and the aggregation of getTopWorkplaces.               *)

\* Mutant of isShiftCompleted: a shift ending at the reading of the clock counts.
isShiftCompletedOrEnding(shift, t) ==
    /\ shift.workerId # Null
    /\ shift.cancelledAt = Null
    /\ NewDate(shift.endAt).valid
    /\ ~DateLess(t, NewDate(shift.endAt))

\* isShiftCompleted, with t the reading new Date() gives inside the call.
isShiftCompleted(shift, t) ==
    /\ shift.workerId # Null
    /\ shift.cancelledAt = Null
    /\ DateLess(NewDate(shift.endAt), t)

\* Mutant of activeWorkplaces: the status filter is missing.
activeWorkplacesUnfiltered(wps) == wps

\* workplaces.filter(workplace => workplace.status === 0)
activeWorkplaces(wps) == SelectSeq(wps, LAMBDA w : w.status = 0)

\* Mutant of completedShifts: the completion filter is missing.
completedShiftsUnfiltered(shs, t) == shs

\* shifts.filter(isShiftCompleted)
completedShifts(shs, t) == SelectSeq(shs, LAMBDA s : isShiftCompleted(s, t))

\* new Map<number, number>()
EmptyMap == [k \in {} |-> 0]

\* map.get(key) || 0
GetOrZero(m, key) == IF key \in DOMAIN m /\ m[key] # 0 THEN m[key] ELSE 0

\* map.set(key, value)
MapSet(m, key, value) == [k \in DOMAIN m \cup {key} |-> IF k = key THEN value ELSE m[k]]

\* The loop over completedShifts, from its i-th element on.
RECURSIVE CountShifts(_, _, _)
CountShifts(cs, i, m) ==
    IF i > Len(cs)
    THEN m
    ELSE CountShifts(cs, i + 1, MapSet(m, cs[i].workplaceId, GetOrZero(m, cs[i].workplaceId) + 1))

workplaceShiftCounts(cs) == CountShifts(cs, 1, EmptyMap)

\* .map(workplace => ({ name, shifts: counts.get(workplace.id) || 0 }))
MapToResults(wps, counts) ==
    [i \in 1..Len(wps) |-> [name |-> wps[i].name, shifts |-> GetOrZero(counts, wps[i].id)]]

\* .filter(result => result.shifts > 0)
PositiveOnly(rs) == SelectSeq(rs, LAMBDA e : e.shifts > 0)

\* Mutant of Compare: the comparator of an ascending sort.
CompareAscending(a, b) == a.shifts - b.shifts

\* The comparator (a, b) => b.shifts - a.shifts
Compare(a, b) == b.shifts - a.shifts

\* Mutant of Insert: an element goes in front of the elements it ties with
\* (a sort that is not stable).
RECURSIVE InsertBeforeTies(_, _)
InsertBeforeTies(sorted, x) ==
    IF Len(sorted) = 0
    THEN <<x>>
    ELSE IF Compare(Head(sorted), x) >= 0
         THEN <<x>> \o sorted
         ELSE <<Head(sorted)>> \o InsertBeforeTies(Tail(sorted), x)

\* Array.prototype.sort is stable (ECMAScript 2019): an element goes behind
\* every element placed before it that the comparator does not put after it.
RECURSIVE Insert(_, _)
Insert(sorted, x) ==
    IF Len(sorted) = 0
    THEN <<x>>
    ELSE IF Compare(Head(sorted), x) > 0
         THEN <<x>> \o sorted
         ELSE <<Head(sorted)>> \o Insert(Tail(sorted), x)

RECURSIVE SortFrom(_, _, _)
SortFrom(rs, i, sorted) ==
    IF i > Len(rs) THEN sorted ELSE SortFrom(rs, i + 1, Insert(sorted, rs[i]))

\* Mutant of Sort: the sort is missing.
SortSkipped(rs) == rs

\* .sort((a, b) => b.shifts - a.shifts)
Sort(rs) == SortFrom(rs, 1, <<>>)

\* The number of entries kept: slice(0, 3).
TopCount == 3

\* .slice(0, 3)
Slice(rs) == SubSeq(rs, 1, IF Len(rs) < TopCount THEN Len(rs) ELSE TopCount)

\* The array getTopWorkplaces returns for the fetched workplaces and shifts.
TopWorkplaces(wps, shs, t) ==
    Slice(Sort(PositiveOnly(
        MapToResults(activeWorkplaces(wps), workplaceShiftCounts(completedShifts(shs, t))))))

\* JSON.stringify(value, null, 2) of an array of results: its tokens.
RECURSIVE StringifyEntries(_, _)
StringifyEntries(rs, i) ==
    IF i > Len(rs)
    THEN <<>>
    ELSE <<"{", "name", rs[i].name, "shifts", ToString(rs[i].shifts), "}">>
         \o StringifyEntries(rs, i + 1)

Stringify(rs) == <<"[">> \o StringifyEntries(rs, 1) \o <<"]">>

-----------------------------------------------------------------------------
(* The program.                                                            *)

Init ==
    /\ proc = "init"
    /\ exitStatus = <<>>
    /\ stdout = <<>>
    /\ pc = [r \in Runs |-> "idle"]
    /\ all = [r \in Runs |-> <<>>]
    /\ nextUrl = [r \in Runs |-> Null]
    /\ req = [r \in Runs |-> NoRequest]
    /\ calls = [r \in Runs |-> 0]
    /\ requested = [r \in Runs |-> <<>>]
    /\ served = [r \in Runs |-> <<>>]
    /\ workplaces = <<>>
    /\ shifts = <<>>
    /\ now = [valid |-> TRUE, ms |-> 0]
    /\ results = <<>>
    /\ computed = FALSE
    /\ verdict = FALSE

\* The runs getTopWorkplaces starts before it awaits Promise.all.
StartedRuns == Runs

\* main() is called: getTopWorkplaces calls fetchAllWorkplaces and
\* fetchAllShifts, each of which runs up to its first await, that is, to the
\* request of its first page.
Start ==
    /\ proc = "init"
    /\ proc' = "running"
    /\ all' = [r \in Runs |-> <<>>]
    /\ nextUrl' = [r \in Runs |-> IF r \in StartedRuns THEN Str(StartUrl(r)) ELSE nextUrl[r]]
    /\ req' = [r \in Runs |-> IF r \in StartedRuns THEN NewRequest(StartUrl(r)) ELSE req[r]]
    /\ calls' = [r \in Runs |-> IF r \in StartedRuns THEN 1 ELSE calls[r]]
    /\ requested' = [r \in Runs |-> IF r \in StartedRuns THEN <<StartUrl(r)>> ELSE requested[r]]
    /\ pc' = [r \in Runs |-> IF r \in StartedRuns THEN "awaiting" ELSE pc[r]]
    /\ UNCHANGED <<exitStatus, stdout, served, workplaces, shifts, now, results,
                   computed, verdict>>

\* A request when the process ends: its socket is closed with the process.
Destroyed(q) ==
    IF q.st \in {"sent", "receiving"}
    THEN [NoRequest EXCEPT !.st = "destroyed", !.url = q.url]
    ELSE q

\* A request whose socket has failed: what had arrived of a response is dropped.
Failed(q) == [NoRequest EXCEPT !.st = "failed", !.url = q.url]

\* A request whose response is complete.
Ended(q) == [q EXCEPT !.st = "ended"]

\* A request whose connection has closed before its response was complete.
Aborted(q) == [q EXCEPT !.st = "aborted", !.wire = <<>>]

\* The promise of the fetchJson call of run r settles with outcome o (q is the
\* request as it then stands), and the
\* code awaiting it runs on: the paginator's loop, and once it returns or
\* throws, Promise.all, the aggregation and main.
Resume(r, q, o) ==
    IF o.kind = "rejected"
    THEN \* the await throws, the run rejects, Promise.all rejects, main catches
        /\ req' = [x \in Runs |-> IF x = r
                                   THEN [q EXCEPT !.outcome = o]
                                   ELSE Destroyed(req[x])]
        /\ pc' = [pc EXCEPT ![r] = "threw"]
        /\ proc' = "exited"
        /\ exitStatus' = <<ExitCodeOnError>>
        /\ UNCHANGED <<stdout, all, nextUrl, calls, requested, served, workplaces,
                       shifts, now, results, computed, verdict>>
    ELSE
        LET response == o.value
            acc == Accumulate(all[r], response.data)
            next == NextLocator(response)
        IN  /\ all' = [all EXCEPT ![r] = acc]
            /\ nextUrl' = [nextUrl EXCEPT ![r] = next]
            /\ served' = [served EXCEPT ![r] = Append(@, response)]
            /\ UNCHANGED <<proc, exitStatus, verdict>>
            /\ IF Truthy(next)
               THEN \* the loop goes round: the next fetchJson call
                   /\ req' = [req EXCEPT ![r] = NewRequest(next.value)]
                   /\ calls' = [calls EXCEPT ![r] = @ + 1]
                   /\ requested' = [requested EXCEPT ![r] = Append(@, next.value)]
                   /\ UNCHANGED <<pc, stdout, workplaces, shifts, now, results, computed>>
               ELSE \* the run returns its accumulator
                   /\ req' = [req EXCEPT ![r] = [q EXCEPT !.outcome = o]]
                   /\ pc' = [pc EXCEPT ![r] = "returned"]
                   /\ UNCHANGED <<calls, requested>>
                   /\ IF AllReturned(pc')
                      THEN \* Promise.all fulfils: aggregate and print
                          /\ workplaces' = all'["workplaces"]
                          /\ shifts' = all'["shifts"]
                          /\ now' \in ClockReadings
                          /\ results' = TopWorkplaces(workplaces', shifts', now')
                          /\ computed' = TRUE
                          /\ stdout' = Append(stdout, Stringify(results'))
                      ELSE UNCHANGED <<stdout, workplaces, shifts, now, results, computed>>

\* The socket of the request fails: the request emits 'error'.
ReqError(r) ==
    /\ proc = "running"
    /\ req[r].st \in {"sent", "receiving"}
    /\ \E e \in TransportErrors(req[r]) : Resume(r, Failed(req[r]), OnError(e))

\* The response arrives: the callback of http.request runs (data = '').
ResponseHead(r) ==
    /\ proc = "running"
    /\ req[r].st = "sent"
    /\ \E code \in StatusCodes :
       \E body \in Bodies(r, Len(requested[r]), code) :
          req' = [req EXCEPT ![r].st = "receiving", ![r].statusCode = code,
                             ![r].wire = body, ![r].data = <<>>]
    /\ UNCHANGED <<proc, exitStatus, stdout, pc, all, nextUrl, calls, requested,
                   served, workplaces, shifts, now, results, computed, verdict>>

\* A chunk of the body arrives: data += chunk.
ResData(r) ==
    /\ proc = "running"
    /\ req[r].st = "receiving"
    /\ req[r].wire # <<>>
    /\ req' = [req EXCEPT ![r].data = Append(@, Head(req[r].wire)),
                          ![r].wire = Tail(@)]
    /\ UNCHANGED <<proc, exitStatus, stdout, pc, all, nextUrl, calls, requested,
                   served, workplaces, shifts, now, results, computed, verdict>>

\* The response is complete: the 'end' handler runs.
ResEnd(r) ==
    /\ proc = "running"
    /\ req[r].st = "receiving"
    /\ req[r].wire = <<>>
    /\ Resume(r, Ended(req[r]), OnEnd(req[r].statusCode, req[r].data))

\* The connection closes after the response has started and before it is
\* complete.  The request emits no 'error' then (the response emits
\* 'aborted'), and fetchJson listens for nothing else on the response: either
\* no handler of fetchJson runs again (Node 16 and later), or 'end' is still
\* emitted, with the part of the body that arrived (earlier versions).
ResAborted(r) ==
    /\ proc = "running"
    /\ req[r].st = "receiving"
    /\ req[r].wire # <<>>
    /\ \/ /\ req' = [req EXCEPT ![r] = Aborted(req[r])]
          /\ UNCHANGED <<proc, exitStatus, stdout, pc, all, nextUrl, calls, requested,
                         served, workplaces, shifts, now, results, computed, verdict>>
       \/ Resume(r, Aborted(req[r]), OnEnd(req[r].statusCode, req[r].data))

\* Nothing is left that could call back: the event loop is empty and the
\* process ends.
Drain ==
    /\ proc = "running"
    /\ \A r \in Runs : req[r].st \notin {"sent", "receiving"}
    /\ proc' = "exited"
    /\ exitStatus' = <<ExitCodeOnDrain>>
    /\ UNCHANGED <<stdout, pc, all, nextUrl, req, calls, requested, served,
                   workplaces, shifts, now, results, computed, verdict>>

Next ==
    \/ Start
    \/ \E r \in Runs : ReqError(r)
    \/ \E r \in Runs : ResponseHead(r)
    \/ \E r \in Runs : ResData(r)
    \/ \E r \in Runs : ResEnd(r)
    \/ \E r \in Runs : ResAborted(r)
    \/ Drain

Spec == Init /\ [][Next]_vars

-----------------------------------------------------------------------------
(* The aggregation on its own: the lists getTopWorkplaces may be handed,   *)
(* and the step that computes its result from them.                        *)

\* The i-th fetched workplace: its id is not its position, its name is its own.
WorkplaceAt(i, status) == Workplace(100 + i, "W" \o ToString(i), status)

\* The workplace lists: up to MaxWorkplaces workplaces, each active (0) or not (1).
WorkplaceLists ==
    UNION {{[i \in 1..n |-> WorkplaceAt(i, st[i])] : st \in [1..n -> {0, 1}]} :
           n \in 0..MaxWorkplaces}

\* The kinds of shift for a list of n workplaces: a completed shift of the
\* k-th workplace (kind k <= n), a completed shift of a workplace that is not
\* in the list (kind n + 1), and three shifts that are not completed:
\* unassigned, cancelled, and ending at the very reading of the clock.
ShiftOfKind(n, k, id) ==
    CASE k <= n -> Shift(id, 100 + k, Num(k - 1), Null, TimeStrings[1])
      [] k = n + 1 -> Shift(id, 100, Num(7), Null, TimeStrings[1])
      [] k = n + 2 -> Shift(id, 101, Null, Null, TimeStrings[1])
      [] k = n + 3 -> Shift(id, 102, Num(7), Str(TimeStrings[1]), TimeStrings[1])
      [] OTHER -> Shift(id, 103, Num(7), Null, TimeStrings[2])

\* The number of kinds of shift for a list of n workplaces.
KindCount(n) == n + 4

\* The sequences of m kinds out of lo..hi, in non-decreasing order.
RECURSIVE KindLists(_, _, _)
KindLists(m, lo, hi) ==
    IF m = 0
    THEN {<<>>}
    ELSE UNION {{<<k>> \o rest : rest \in KindLists(m - 1, k, hi)} : k \in lo..hi}

\* The shift lists for n workplaces: up to MaxShifts shifts, grouped by kind
\* (the counting loop does not depend on the order of the shifts).
ShiftList(n, kinds) == [j \in 1..Len(kinds) |-> ShiftOfKind(n, kinds[j], j)]

AggInit ==
    /\ proc = "init"
    /\ exitStatus = <<>>
    /\ stdout = <<>>
    /\ pc = [r \in Runs |-> "idle"]
    /\ all = [r \in Runs |-> <<>>]
    /\ nextUrl = [r \in Runs |-> Null]
    /\ req = [r \in Runs |-> NoRequest]
    /\ calls = [r \in Runs |-> 0]
    /\ requested = [r \in Runs |-> <<>>]
    /\ served = [r \in Runs |-> <<>>]
    /\ workplaces \in WorkplaceLists
    /\ \E m \in 0..MaxShifts :
       \E kinds \in KindLists(m, 1, KindCount(Len(workplaces))) :
          shifts = ShiftList(Len(workplaces), kinds)
    /\ now = [valid |-> TRUE, ms |-> 1]
    /\ results = <<>>
    /\ computed = FALSE
    /\ verdict = FALSE

\* The synchronous part of getTopWorkplaces, on the lists it was handed.
Aggregate ==
    /\ ~computed
    /\ results' = TopWorkplaces(workplaces, shifts, now)
    /\ computed' = TRUE
    /\ UNCHANGED <<proc, exitStatus, stdout, pc, all, nextUrl, req, calls, requested,
                   served, workplaces, shifts, now, verdict>>

AggSpec == AggInit /\ [][Aggregate]_vars

-----------------------------------------------------------------------------
(* isShiftCompleted on its own: one shift and one reading of the clock.    *)

ProbeShifts ==
    {Shift(1, wp, worker, cancelled, end) :
        wp \in {1, 2},
        worker \in {Null, Num(0), Num(7)},
        cancelled \in {Null, Str(TimeStrings[1])},
        end \in {TimeStrings[i] : i \in 1..Len(TimeStrings)} \cup {NotADate}}

PredInit ==
    /\ proc = "init"
    /\ exitStatus = <<>>
    /\ stdout = <<>>
    /\ pc = [r \in Runs |-> "idle"]
    /\ all = [r \in Runs |-> <<>>]
    /\ nextUrl = [r \in Runs |-> Null]
    /\ req = [r \in Runs |-> NoRequest]
    /\ calls = [r \in Runs |-> 0]
    /\ requested = [r \in Runs |-> <<>>]
    /\ served = [r \in Runs |-> <<>>]
    /\ workplaces = <<>>
    /\ \E s \in ProbeShifts : shifts = <<s>>
    /\ now \in ClockReadings
    /\ results = <<>>
    /\ computed = FALSE
    /\ verdict = FALSE

\* One call of isShiftCompleted.
Classify ==
    /\ ~computed
    /\ verdict' = isShiftCompleted(shifts[1], now)
    /\ computed' = TRUE
    /\ UNCHANGED <<proc, exitStatus, stdout, pc, all, nextUrl, req, calls, requested,
                   served, workplaces, shifts, now, results>>

PredSpec == PredInit /\ [][Classify]_vars

-----------------------------------------------------------------------------
(* Notions the claims are stated in.                                       *)

\* The number of fetched shifts that are completed and belong to workplace id.
CompletedCount(id) ==
    Cardinality({j \in 1..Len(shifts) :
                    shifts[j].workplaceId = id /\ isShiftCompleted(shifts[j], now)})

\* The positions of the fetched workplaces that are active and have a completed shift.
Qualifying ==
    {i \in 1..Len(workplaces) :
        workplaces[i].status = 0 /\ CompletedCount(workplaces[i].id) > 0}

\* The positions of the fetched workplaces an entry of the result can stem
\* from (names are the workplaces' own in the lists the aggregation is tried on).
SourcesOf(entry) == {i \in 1..Len(workplaces) : workplaces[i].name = entry.name}

\* The positions of the fetched workplaces that have an entry in the result.
Included == {i \in 1..Len(workplaces) : \E k \in 1..Len(results) : i \in SourcesOf(results[k])}

\* The concatenation of the data arrays of a sequence of pages.
RECURSIVE Concatenation(_)
Concatenation(pages) ==
    IF Len(pages) = 0 THEN <<>> ELSE Head(pages).data \o Concatenation(Tail(pages))

\* A next link that is absent: null or the empty string.
Absent(link) == link = Null \/ link = Str("")

-----------------------------------------------------------------------------
(* Claims about isShiftCompleted (PredSpec).                               *)

\* C3: isShiftCompleted returns true if and only if workerId is present,
\* cancelledAt is absent and endAt is strictly before the reading of the clock.
C3_CompletedIff ==
    computed =>
        (verdict <=>
            /\ shifts[1].workerId.type = "number"
            /\ shifts[1].cancelledAt.type = "null"
            /\ \E i \in 1..Len(TimeStrings) :
                  shifts[1].endAt = TimeStrings[i] /\ i - 1 < now.ms)

\* C3, its case: an assigned shift (worker number 0) that is not cancelled and
\* ends exactly at the reading of the clock has been classified.
C3_Witness ==
    /\ computed
    /\ shifts[1].workerId = Num(0)
    /\ shifts[1].cancelledAt = Null
    /\ NewDate(shifts[1].endAt) = now
    /\ ~verdict

-----------------------------------------------------------------------------
(* Claims about the aggregation (AggSpec).                                 *)

\* C4: every entry of the result stems from a workplace of status 0 and has a
\* strictly positive shift count; a workplace of another status has no entry.
C4_ActiveAndPositive ==
    computed =>
        \A k \in 1..Len(results) :
            /\ results[k].shifts > 0
            /\ SourcesOf(results[k]) # {}
            /\ \A i \in SourcesOf(results[k]) : workplaces[i].status = 0

\* C4, its case: the result has an entry, while an inactive workplace with a
\* completed shift and an active workplace without one have been passed over.
C4_Witness ==
    /\ computed
    /\ Len(results) > 0
    /\ \E i \in 1..Len(workplaces) :
          workplaces[i].status # 0 /\ CompletedCount(workplaces[i].id) > 0
    /\ \E i \in 1..Len(workplaces) :
          workplaces[i].status = 0 /\ CompletedCount(workplaces[i].id) = 0

\* C5: the result has at most 3 entries and its shift counts never increase
\* along the sequence.
C5_AtMostThreeDescending ==
    computed =>
        /\ Len(results) <= 3
        /\ \A k \in 1..(Len(results) - 1) : results[k].shifts >= results[k + 1].shifts

\* C5, its case: more than 3 workplaces qualify, fetched in ascending order of
\* their counts, and the result has been computed.
C5_Witness ==
    /\ computed
    /\ Cardinality(Qualifying) > 3
    /\ \E i \in Qualifying, j \in Qualifying :
          i < j /\ CompletedCount(workplaces[i].id) < CompletedCount(workplaces[j].id)
    /\ Len(results) = 3

\* C8: the shifts value of every entry is the number of fetched shifts that
\* are completed and whose workplaceId is the id of the active workplace the
\* entry stems from, and no workplace has two entries; so a completed shift of
\* an inactive workplace or of an id no fetched workplace has counts nowhere.
C8_ExactCounts ==
    computed =>
        /\ \A k \in 1..Len(results) :
              \E i \in SourcesOf(results[k]) :
                  /\ workplaces[i].status = 0
                  /\ results[k].shifts = CompletedCount(workplaces[i].id)
        /\ \A k \in 1..Len(results), l \in 1..Len(results) :
              k # l => results[k].name # results[l].name

\* C8, its case: A active with several completed shifts, B active with fewer,
\* an inactive workplace with a completed shift, and a completed shift of a
\* workplace that was not fetched.
C8_Witness ==
    /\ computed
    /\ Len(results) = 2
    /\ results[1].shifts > results[2].shifts
    /\ \E i \in 1..Len(workplaces) :
          workplaces[i].status # 0 /\ CompletedCount(workplaces[i].id) > 0
    /\ \E j \in 1..Len(shifts) :
          /\ isShiftCompleted(shifts[j], now)
          /\ \A i \in 1..Len(workplaces) : workplaces[i].id # shifts[j].workplaceId

\* C9: the result has min(3, number of qualifying workplaces) entries, and
\* every qualifying workplace left out has a count that is at most the count
\* of every entry.
C9_TopCounts ==
    computed =>
        /\ Len(results) = (IF Cardinality(Qualifying) < 3 THEN Cardinality(Qualifying) ELSE 3)
        /\ \A i \in Qualifying \ Included :
              \A k \in 1..Len(results) :
                  CompletedCount(workplaces[i].id) <= results[k].shifts

\* C9, its case: four workplaces qualify, the last fetched has the highest
\* count, and one with a lower count is left out.
C9_Witness ==
    /\ computed
    /\ Cardinality(Qualifying) = 4
    /\ \E i \in Qualifying :
          \A j \in Qualifying \ {i} :
              j < i /\ CompletedCount(workplaces[j].id) < CompletedCount(workplaces[i].id)
    /\ Qualifying \ Included # {}

\* C10: workplaces with equal counts appear in the order in which they were
\* fetched, and when a qualifying workplace is left out, every entry with the
\* same count was fetched before it.
C10_TiesInFetchOrder ==
    computed =>
        /\ \A k \in 1..Len(results), l \in 1..Len(results) :
              (k < l /\ results[k].shifts = results[l].shifts) =>
                  \A i \in SourcesOf(results[k]), j \in SourcesOf(results[l]) : i < j
        /\ \A j \in Qualifying \ Included :
              \A k \in 1..Len(results) :
                  results[k].shifts = CompletedCount(workplaces[j].id) =>
                      \A i \in SourcesOf(results[k]) : i < j

\* C10, its case: four workplaces qualify with the same count, so the tie
\* straddles the cut-off, and three entries have been kept.
C10_Witness ==
    /\ computed
    /\ Cardinality(Qualifying) = 4
    /\ \A i \in Qualifying, j \in Qualifying :
          CompletedCount(workplaces[i].id) = CompletedCount(workplaces[j].id)
    /\ Len(results) = 3

-----------------------------------------------------------------------------
(* Claims about the program (Spec).                                        *)

C2_Pagination ==
    \A r \in Runs :
        /\ all[r] = Concatenation(served[r])
        /\ Len(requested[r]) <= Len(served[r]) + 1
        /\ Len(requested[r]) >= 1 => requested[r][1] = StartUrl(r)
        /\ \A k \in 2..Len(requested[r]) :
              served[r][k - 1].links.next = Str(requested[r][k])
        /\ pc[r] = "returned" =>
              /\ Len(served[r]) >= 1
              /\ Len(requested[r]) = Len(served[r])
              /\ Absent(served[r][Len(served[r])].links.next)
              /\ \A k \in 1..(Len(served[r]) - 1) : ~Absent(served[r][k].links.next)

\* C2, its case: a run has returned the items of a chain of 3 pages, the last
\* with an empty next link, while the other run is waiting for its second page.
C2_Witness ==
    \E r \in Runs :
        /\ pc[r] = "returned"
        /\ Len(served[r]) = 3
        /\ \A k \in 1..3 : Len(served[r][k].data) > 0
        /\ served[r][3].links.next = Str("")
        /\ pc[Other(r)] = "awaiting"
        /\ Len(served[Other(r)]) = 1

\* The part of C6 that the response decides: a call whose response has ended
\* has settled, resolved with the parsed body when the status is in [200, 300)
\* and the body is JSON, rejected with a parse error when the status is in
\* [200, 300) and the body is not JSON, rejected with the status otherwise;
\* a call whose socket raised an error is rejected with that error; and a
\* call puts one request on the wire.
SettledByResponse ==
    \A r \in Runs :
        /\ req[r].st = "ended" =>
              req[r].outcome =
                  IF req[r].statusCode \in 200..299
                  THEN IF \E p \in Pages(r, Len(requested[r])) : Serialize(p) = req[r].data
                       THEN Resolved(CHOOSE p \in Pages(r, Len(requested[r])) :
                                        Serialize(p) = req[r].data)
                       ELSE Rejected("Failed to parse JSON")
                  ELSE Rejected("HTTP error! status: " \o ToString(req[r].statusCode))
        /\ req[r].st = "failed" =>
              req[r].outcome \in {Rejected("ECONNREFUSED"), Rejected("ECONNRESET")}
        /\ calls[r] = Len(requested[r])

\* C6: a fetchJson call settles with the one outcome its response decides, and
\* fails with the transport error when the connection fails before the
\* response is complete; it never puts a second request on the wire.
C6_AsClaimed ==
    /\ SettledByResponse
    /\ \A r \in Runs :
          req[r].st = "aborted" =>
              req[r].outcome \in {Rejected("ECONNREFUSED"), Rejected("ECONNRESET")}

\* C7: both runs are started before anything is awaited; the aggregation works
\* on the sequences both runs have returned; standard output holds nothing
\* until both runs have returned and from then on exactly one document, the
\* JSON array of the aggregation's result (at most 3 objects); and the process
\* of a run in which every fetch succeeded ends with exit status 0.
C7_SuccessfulRun ==
    /\ proc # "init" => \A r \in Runs : Len(requested[r]) >= 1
    /\ computed =>
          /\ \A r \in Runs : pc[r] = "returned"
          /\ workplaces = all["workplaces"]
          /\ shifts = all["shifts"]
          /\ results = TopWorkplaces(workplaces, shifts, now)
          /\ Len(results) <= 3
    /\ stdout # <<>> => computed
    /\ (\A r \in Runs : pc[r] = "returned") => stdout = <<Stringify(results)>>
    /\ (proc = "exited" /\ \A r \in Runs : pc[r] = "returned") => exitStatus = <<0>>

\* C7, its case: every fetch of a run over two chains of 3 pages has
\* succeeded, two workplaces have been printed and the process has ended.
C7_Witness ==
    /\ proc = "exited"
    /\ exitStatus = <<0>>
    /\ \A r \in Runs : Len(served[r]) = 3
    /\ Len(results) = 2
    /\ stdout = <<Stringify(results)>>

=============================================================================
